---------------------------- MODULE Spec2Model ----------------------------
(***************************************************************************)
(* State-machine model of spotipiEinkDisplay.py: the main loop of          *)
(* SpotipiEinkDisplay.start(), the recursion-limited poll _get_song_info,  *)
(* the frame build / refresh-counter logic of _display_update_process and  *)
(* the idle gallery.                                                       *)
(*                                                                         *)
(* Python values are modelled as records: [type |-> "list", items |-> s]   *)
(* for a list, [type |-> "NoneType"] for None.  A Track as returned by     *)
(* _get_song_info is the list [song_title, cover_url, artist] (TLA+        *)
(* sequences are 1-based, so song_request[0] is items[1]).                 *)
(*                                                                         *)
(* The control thread is followed statement by statement (pc).  A failure  *)
(* of the display driver is caught inside _display_clean / _display_image  *)
(* and changes nothing the program holds: the two calls appear in ops as   *)
(* the attempts "clean" and "push", and the attempts whose driver call     *)
(* raised are remembered in failed.  The 0.01 s pause before a retry of    *)
(* the poll is not counted as a sleep of the loop.  Locals that are dead   *)
(* (elapsed after the wait, image after the call) return to their initial  *)
(* values, and a terminated process holds nothing.                         *)
(*                                                                         *)
(* The helpers that compute without touching the loop (_get_idle_image,    *)
(* _break_fix, _fit_text_bottom_up, the geometry of _gen_pic) are examined *)
(* on their own, in specifications that draw their arguments from bounded  *)
(* sets: SpecGallery, SpecText and SpecLayout.                             *)
(***************************************************************************)
EXTENDS Integers, Sequences, FiniteSets, TLC

VARIABLES
    pc,                 \* position of the single control thread in start()
    song_prev,          \* self.song_prev
    pic_counter,        \* self.pic_counter
    idle_index,         \* self.idle_index
    idle_images,        \* self.idle_images (fixed after __init__)
    idle_shuffle,       \* self.idle_shuffle (configuration)
    idle_display_time,  \* self.idle_display_time (configuration)
    count,              \* func.count of limit_recursion
    depth,              \* wrapper frames of the running poll waiting in func()
    song_request,       \* local song_request of start()
    image,              \* local image of _display_update_process
    elapsed,            \* local elapsed of the idle wait
    sleeps,             \* history: time.sleep(sleep_increment) calls of this wait
    ops,                \* history: display operations of the current frame build
    polled,             \* value of self._get_song_info() tested by the idle wait
    tick,               \* history: outcome of the latest top-of-loop poll
    prev_tick,          \* history: the tick before it (its outcome and its
                        \* song_request), kept until the loop next sleeps
    delays,             \* history: time.sleep(self.delay) calls since that poll
    failed,             \* history: the display operations of the current frame
                        \* build whose driver call raised (the exception is
                        \* swallowed), kept until the loop next sleeps
    exit_status,        \* the SystemExit that ended the process, once it has
    picked,             \* history: the images _get_idle_image has returned
    call                \* the call of a rendering helper under examination

vars == <<pc, song_prev, pic_counter, idle_index, idle_images, idle_shuffle,
          idle_display_time, count, depth, song_request, image, elapsed,
          sleeps, ops, polled, tick, prev_tick, delays, failed, exit_status,
          picked, call>>

\* what the main loop never touches: the state of the helper examinations
pure == <<picked, call>>

config == <<idle_images, idle_shuffle, idle_display_time>>

-----------------------------------------------------------------------------
(* Program constants *)

\* @limit_recursion(limit=10)
limit == 10

\* config.getint('DEFAULT', 'display_refresh_counter', fallback=20)
refresh_limit == 20

\* sleep_increment = 5
sleep_increment == 5

\* self.song_prev = 'NO_SONG'
NO_SONG == "NO_SONG"

\* self.default_idle_image = config.get('DEFAULT', 'no_song_cover')
default_idle_image == "default"

-----------------------------------------------------------------------------
(* Inputs: what the environment (Spotify, the file system, the            *)
(* configuration file) can hand to the program.                           *)

\* configured idle_display_time values: zero, not a multiple of 5, and the
\* fallback of config.getint('DEFAULT', 'idle_display_time', fallback=300)
IdleDisplayTimes == {0, 7, 300}

\* the largest idle_images folder explored
MaxIdleImages == 2

\* what _load_idle_images finds: nothing, or MaxIdleImages image files
IdleFolders ==
    {[i \in 1..k |-> "idle" \o ToString(i)] : k \in {0, MaxIdleImages}}

PyNone == [type |-> "NoneType"]

PyList(s) == [type |-> "list", items |-> s]

\* the value of a local that is not bound yet
Unbound == [type |-> "unbound"]

\* [song_title, cover_url, artist] lists the source can deliver.  A cover
\* URL of the Spotify API is never empty and starts with its scheme ("h:").
TrackA == PyList(<<"a", "h:h:1", "x">>)

\* TrackA under another artist credit
TrackA2 == PyList(<<"a", "h:h:1", "y">>)

\* another title and another cover whose concatenation is TrackA's
TrackB == PyList(<<"ah:", "h:1", "x">>)

\* a title that spells the idle sentinel
TrackC == PyList(<<"NO_SONG", "h:1", "x">>)

Tracks == {TrackA, TrackA2, TrackB, TrackC}

\* Python truthiness of what _get_song_info returns ([] and None are falsy)
Truthy(v) == v.type = "list" /\ Len(v.items) > 0

\* What one run of the undecorated _get_song_info sees from the token
\* helper and from sp.currently_playing.
SourceAnswers ==
    {[kind |-> k] : k \in {"notoken", "nothing", "ad", "unknown",
                           "typeerror", "unsupported", "raise"}}
    \cup {[kind |-> k, track |-> t] : k \in {"track", "episode"}, t \in Tracks}

\* _get_song_info body: the value it returns without recursing
FinalAnswer(a) == a.kind \notin {"unknown", "typeerror", "raise"}

SongInfo(a) ==
    IF a.kind \in {"track", "episode"} THEN a.track ELSE PyList(<< >>)

\* the branches that sleep 0.01 s and call self._get_song_info() again
RetryAnswer(a) == a.kind \in {"unknown", "typeerror"}

\* an exception other than TypeError leaves the function
RaiseAnswer(a) == a.kind = "raise"


-----------------------------------------------------------------------------
(* limit_recursion and _get_song_info *)

\* off by one: `<=` written for `<`
Mut_MayCall(c) == c <= limit

\* wrapper: `if func.count < limit` after `func.count += 1`
MayCall(c) == c < limit

\* What the outermost wrapper call finally returns when the innermost call
\* starts with func.count = c: a value of _get_song_info, or None once the
\* ceiling is reached.
PollResults(c) ==
    IF MayCall(c + 1)
    THEN {SongInfo(a) : a \in {b \in SourceAnswers : FinalAnswer(b)}}
    ELSE {PyNone}

-----------------------------------------------------------------------------
(* start(): the decisions of the main loop *)

\* the artist made part of the key
Mut_NewSongKey(req) == req.items[1] \o req.items[2] \o req.items[3]

\* new_song_key = song_request[0] + song_request[1]
NewSongKey(req) == req.items[1] \o req.items[2]

\* the comparison with the stored key left out
Mut_IsNewSong(prev, key) == TRUE

\* if self.song_prev != new_song_key
IsNewSong(prev, key) == prev # key

\* the else branch leaves self.song_prev as it was
Mut_IdleSongPrev(prev) == prev

\* self.song_prev = 'NO_SONG' in the else branch
IdleSongPrev(prev) == NO_SONG

\* while elapsed < self.idle_display_time
IdleWaitOn(e, t) == e < t

\* the wait never breaks
Mut_IdleBreak(r) == FALSE

\* if self._get_song_info(): break
IdleBreak(r) == Truthy(r)

\* no handler around the loop body: the exception leaves start()
Mut_OnException == "stopped"

\* `except Exception as e:` of the loop body logs the error; control then
\* reaches time.sleep(self.delay)
OnException == "delay"

\* the `continue` left out: control falls through to time.sleep(self.delay)
Mut_AfterIdleWait == "delay"

\* `continue  # Skip the usual delay`: where control goes after the wait
AfterIdleWait == "poll"

-----------------------------------------------------------------------------
(* _get_idle_image, _gen_pic, _display_update_process *)

\* the cursor advanced before the path is read
Mut_GetIdleImage(images, shuffle, idx) ==
    IF Len(images) = 0
    THEN {[img |-> default_idle_image, idx |-> idx]}
    ELSE IF shuffle
         THEN {[img |-> images[i], idx |-> idx] : i \in 1..Len(images)}
         ELSE {[img |-> images[((idx + 1) % Len(images)) + 1],
                idx |-> (idx + 1) % Len(images)]}

\* the empty gallery answered with the idle folder itself
Mut_GetIdleImageEmpty(images, shuffle, idx) ==
    IF Len(images) = 0
    THEN {[img |-> "idle_folder", idx |-> idx]}
    ELSE IF shuffle
         THEN {[img |-> images[i], idx |-> idx] : i \in 1..Len(images)}
         ELSE {[img |-> images[idx + 1], idx |-> (idx + 1) % Len(images)]}

\* _get_idle_image: the image opened and the cursor left behind
GetIdleImage(images, shuffle, idx) ==
    IF Len(images) = 0
    THEN {[img |-> default_idle_image, idx |-> idx]}
    ELSE IF shuffle
         THEN {[img |-> images[i], idx |-> idx] : i \in 1..Len(images)}
         ELSE {[img |-> images[idx + 1], idx |-> (idx + 1) % Len(images)]}

\* _gen_pic: the composite, described by what it was made from
GenPic(src, artist, title, show_small_cover) ==
    [type |-> "Image", src |-> src, artist |-> artist, title |-> title,
     small |-> show_small_cover]

\* if self.pic_counter > refresh_limit
RefreshDue(c) == c > refresh_limit

\* the reset left out
Mut_CounterAfterClean(c) == c

\* self.pic_counter = 0 after _display_clean()
CounterAfterClean(c) == 0

\* the fallback composed like an idle frame, the Track's text dropped
Mut_SongFrame(src, req) ==
    IF src = default_idle_image
    THEN GenPic(src, "", "", FALSE)
    ELSE GenPic(src, req.items[3], req.items[1], TRUE)

\* the frame of a Track: _gen_pic(cover, artist=song_request[2],
\* title=song_request[0], show_small_cover=True), cover being the fetched
\* album cover or, when that fails, the default idle image
SongFrame(src, req) == GenPic(src, req.items[3], req.items[1], TRUE)

\* the idle frame composed like a Track's, with the small cover
Mut_IdleFrame(img) == GenPic(img, "", "", TRUE)

\* the idle frame: _gen_pic(idle_img, artist="", title="",
\* show_small_cover=False)
IdleFrame(img) == GenPic(img, "", "", FALSE)

-----------------------------------------------------------------------------
\* prev_tick when nothing is remembered
NoTick == [outcome |-> "none", request |-> Unbound]

\* sys.exit(code) raises SystemExit(code)
SystemExit(code) == [type |-> "SystemExit", code |-> code]

\* call when no helper is under examination
NoCall == [fn |-> "none"]

Init ==
    /\ pc = "start"
    /\ song_prev = ""
    /\ pic_counter = 0
    /\ idle_index = 0
    /\ idle_images \in IdleFolders
    /\ idle_shuffle \in BOOLEAN
    /\ idle_display_time \in IdleDisplayTimes
    \* the long default wait is explored with the default gallery only
    /\ idle_display_time > 4 * sleep_increment
         => idle_images = << >> /\ ~idle_shuffle
    /\ count = 0
    /\ depth = 0
    /\ song_request = Unbound
    /\ image = Unbound
    /\ elapsed = 0
    /\ sleeps = 0
    /\ ops = << >>
    /\ polled = Unbound
    /\ tick = "none"
    /\ prev_tick = NoTick
    /\ delays = 0
    /\ failed = {}
    /\ exit_status = Unbound
    /\ picked = << >>
    /\ call = NoCall

Polling == pc \in {"poll", "idle_poll"}

\* start(): self._display_clean() before the loop is entered
Start ==
    /\ pc = "start"
    /\ pc' = "poll"
    /\ UNCHANGED <<song_prev, pic_counter, idle_index, config, count, depth,
                   song_request, image, elapsed, sleeps, ops, polled, tick,
                   prev_tick, delays>>
    /\ UNCHANGED <<failed, exit_status, pure>>

\* One wrapper call whose func() gets "unknown" (or a TypeError) and is
\* about to call self._get_song_info() again.
PollRetry ==
    /\ Polling
    /\ MayCall(count + 1)
    /\ \E a \in SourceAnswers : RetryAnswer(a)
    /\ count' = count + 1
    /\ depth' = depth + 1
    /\ UNCHANGED <<pc, song_prev, pic_counter, idle_index, config,
                   song_request, image, elapsed, sleeps, ops, polled, tick,
                   prev_tick, delays>>
    /\ UNCHANGED <<failed, exit_status, pure>>

\* One wrapper call whose func() raises: no frame of the recursion runs
\* `func.count -= 1`, and the exception lands in `except Exception` of the
\* main loop, followed by time.sleep(self.delay).
PollRaise ==
    /\ Polling
    /\ MayCall(count + 1)
    /\ \E a \in SourceAnswers : RaiseAnswer(a)
    /\ count' = count + 1
    /\ depth' = 0
    /\ pc' = OnException
    /\ tick' = IF pc = "poll" THEN "raised" ELSE tick
    /\ prev_tick' = IF pc = "poll"
                    THEN [outcome |-> tick, request |-> song_request]
                    ELSE NoTick
    /\ delays' = IF pc = "poll" THEN 0 ELSE delays
    /\ elapsed' = 0
    /\ sleeps' = 0
    /\ polled' = Unbound
    /\ UNCHANGED <<song_prev, pic_counter, idle_index, config, song_request,
                   image, ops>>
    /\ UNCHANGED <<failed, exit_status, pure>>

\* The top-of-loop poll returns r (every pending wrapper frame decrements
\* func.count), and the loop body branches on it.
Tick ==
    /\ pc = "poll"
    /\ \E r \in PollResults(count) :
        /\ song_request' = r
        /\ tick' = IF Truthy(r) THEN "track" ELSE "empty"
        /\ IF Truthy(r)
           THEN IF IsNewSong(song_prev, NewSongKey(r))
                THEN song_prev' = NewSongKey(r) /\ pc' = "build"
                ELSE song_prev' = song_prev /\ pc' = "delay"
           ELSE song_prev' = IdleSongPrev(song_prev) /\ pc' = "build"
    /\ prev_tick' = [outcome |-> tick, request |-> song_request]
    /\ delays' = 0
    /\ count' = count - depth
    /\ depth' = 0
    /\ UNCHANGED <<pic_counter, idle_index, config, image, elapsed, sleeps,
                   ops, polled>>
    /\ UNCHANGED <<failed, exit_status, pure>>

\* _display_update_process, first half, for a Track: fetch the cover, or
\* fall back to the default idle image, and compose.
BuildSong ==
    /\ pc = "build"
    /\ Truthy(song_request)
    /\ \E src \in {song_request.items[2], default_idle_image} :
        image' = SongFrame(src, song_request)
    /\ ops' = << >>
    /\ pc' = "refresh"
    /\ UNCHANGED <<song_prev, pic_counter, idle_index, config, count, depth,
                   song_request, elapsed, sleeps, polled, tick, prev_tick,
                   delays>>
    /\ UNCHANGED <<failed, exit_status, pure>>

\* _display_update_process, first half, idle: ask the gallery and compose.
BuildIdle ==
    /\ pc = "build"
    /\ ~Truthy(song_request)
    /\ \E sel \in GetIdleImage(idle_images, idle_shuffle, idle_index) :
        /\ image' = IdleFrame(sel.img)
        /\ idle_index' = sel.idx
    /\ ops' = << >>
    /\ pc' = "refresh"
    /\ UNCHANGED <<song_prev, pic_counter, config, count, depth,
                   song_request, elapsed, sleeps, polled, tick, prev_tick,
                   delays>>
    /\ UNCHANGED <<failed, exit_status, pure>>

\* The frame build raises (Image.open of the idle or default image, or
\* _gen_pic itself): the exception reaches `except Exception` of the main
\* loop.  The gallery cursor has moved already (idle_index is assigned
\* before Image.open).
BuildRaise ==
    /\ pc = "build"
    /\ IF Truthy(song_request)
       THEN idle_index' = idle_index
       ELSE \E sel \in GetIdleImage(idle_images, idle_shuffle, idle_index) :
               idle_index' = sel.idx
    /\ ops' = << >>
    /\ pc' = OnException
    /\ UNCHANGED <<song_prev, pic_counter, config, count, depth,
                   song_request, image, elapsed, sleeps, polled, tick,
                   prev_tick, delays>>
    /\ UNCHANGED <<failed, exit_status, pure>>

\* `if self.pic_counter > refresh_limit:` taken: clear, then reset
DisplayClean ==
    /\ pc = "refresh"
    /\ RefreshDue(pic_counter)
    /\ ops' = Append(ops, "clean")
    /\ pic_counter' = CounterAfterClean(pic_counter)
    /\ pc' = "push"
    /\ UNCHANGED <<song_prev, idle_index, config, count, depth, song_request,
                   image, elapsed, sleeps, polled, tick, prev_tick, delays>>
    /\ \E raised \in BOOLEAN :
        failed' = IF raised THEN failed \cup {"clean"} ELSE failed
    /\ UNCHANGED <<exit_status, pure>>

\* `if self.pic_counter > refresh_limit:` not taken
NoClean ==
    /\ pc = "refresh"
    /\ ~RefreshDue(pic_counter)
    /\ pc' = "push"
    /\ UNCHANGED <<song_prev, pic_counter, idle_index, config, count, depth,
                   song_request, image, elapsed, sleeps, ops, polled, tick,
                   prev_tick, delays>>
    /\ UNCHANGED <<failed, exit_status, pure>>

\* self._display_image(image); self.pic_counter += 1; then back in start():
\* a Track goes to the trailing delay, idle sets elapsed = 0 and waits.
Push ==
    /\ pc = "push"
    /\ ops' = Append(ops, "push")
    /\ pic_counter' = pic_counter + 1
    /\ image' = Unbound
    /\ pc' = IF Truthy(song_request) THEN "delay" ELSE "idle_wait"
    /\ elapsed' = 0
    /\ sleeps' = 0
    /\ UNCHANGED <<song_prev, idle_index, config, count, depth, song_request,
                   polled, tick, prev_tick, delays>>
    /\ \E raised \in BOOLEAN :
        failed' = IF raised THEN failed \cup {"push"} ELSE failed
    /\ UNCHANGED <<exit_status, pure>>

\* time.sleep(sleep_increment); elapsed += sleep_increment
IdleSleep ==
    /\ pc = "idle_wait"
    /\ IdleWaitOn(elapsed, idle_display_time)
    /\ elapsed' = elapsed + sleep_increment
    /\ sleeps' = sleeps + 1
    /\ pc' = "idle_poll"
    /\ prev_tick' = NoTick
    /\ UNCHANGED <<song_prev, pic_counter, idle_index, config, count, depth,
                   song_request, image, ops, polled, tick, delays>>
    /\ failed' = {}
    /\ UNCHANGED <<exit_status, pure>>

\* the poll of one increment returns r: break, or test the loop again
IdlePoll ==
    /\ pc = "idle_poll"
    /\ \E r \in PollResults(count) :
        /\ polled' = r
        /\ pc' = IF IdleBreak(r) THEN "continue" ELSE "idle_wait"
    /\ count' = count - depth
    /\ depth' = 0
    /\ UNCHANGED <<song_prev, pic_counter, idle_index, config, song_request,
                   image, elapsed, sleeps, ops, tick, prev_tick, delays>>
    /\ UNCHANGED <<failed, exit_status, pure>>

\* the while condition fails: the wait has run its full length
IdleDone ==
    /\ pc = "idle_wait"
    /\ ~IdleWaitOn(elapsed, idle_display_time)
    /\ pc' = "continue"
    /\ prev_tick' = NoTick
    /\ UNCHANGED <<song_prev, pic_counter, idle_index, config, count, depth,
                   song_request, image, elapsed, sleeps, ops, polled, tick,
                   delays>>
    /\ failed' = {}
    /\ UNCHANGED <<exit_status, pure>>

\* `continue`: the locals of the wait are dead from here on
Continue ==
    /\ pc = "continue"
    /\ pc' = AfterIdleWait
    /\ elapsed' = 0
    /\ sleeps' = 0
    /\ polled' = Unbound
    /\ UNCHANGED <<song_prev, pic_counter, idle_index, config, count, depth,
                   song_request, image, ops, tick, prev_tick, delays>>
    /\ UNCHANGED <<failed, exit_status, pure>>

\* time.sleep(self.delay)
Delay ==
    /\ pc = "delay"
    /\ pc' = "poll"
    /\ delays' = delays + 1
    /\ prev_tick' = NoTick
    /\ UNCHANGED <<song_prev, pic_counter, idle_index, config, count, depth,
                   song_request, image, elapsed, sleeps, ops, polled, tick>>
    /\ failed' = {}
    /\ UNCHANGED <<exit_status, pure>>

\* SIGTERM (_handle_sigterm) or KeyboardInterrupt: sys.exit(0).  The process
\* and everything it held is gone.
Terminate ==
    /\ pc # "stopped"
    /\ pc' = "stopped"
    /\ song_prev' = ""
    /\ pic_counter' = 0
    /\ idle_index' = 0
    /\ count' = 0
    /\ depth' = 0
    /\ song_request' = Unbound
    /\ image' = Unbound
    /\ elapsed' = 0
    /\ sleeps' = 0
    /\ ops' = << >>
    /\ polled' = Unbound
    /\ tick' = "none"
    /\ prev_tick' = NoTick
    /\ delays' = 0
    /\ UNCHANGED config
    /\ failed' = {}
    /\ exit_status' = SystemExit(0)
    /\ UNCHANGED pure

Next ==
    \/ Start
    \/ PollRetry
    \/ PollRaise
    \/ Tick
    \/ BuildSong
    \/ BuildIdle
    \/ BuildRaise
    \/ DisplayClean
    \/ NoClean
    \/ Push
    \/ IdleSleep
    \/ IdlePoll
    \/ IdleDone
    \/ Continue
    \/ Delay
    \/ Terminate

Spec == Init /\ [][Next]_vars

-----------------------------------------------------------------------------
(* The idle gallery on its own: _get_idle_image called again and again on   *)
(* an object fresh from __init__.                                          *)

\* the variables of the main loop, at rest while a helper is examined
loop == <<pc, song_prev, pic_counter, count, depth, song_request, image,
          elapsed, sleeps, ops, polled, tick, prev_tick, delays, failed,
          exit_status, idle_display_time>>

\* the state of an object whose start() is never called
Idle(at) ==
    /\ pc = at
    /\ song_prev = ""
    /\ pic_counter = 0
    /\ count = 0
    /\ depth = 0
    /\ song_request = Unbound
    /\ image = Unbound
    /\ elapsed = 0
    /\ sleeps = 0
    /\ ops = << >>
    /\ polled = Unbound
    /\ tick = "none"
    /\ prev_tick = NoTick
    /\ delays = 0
    /\ failed = {}
    /\ exit_status = Unbound
    /\ idle_display_time = 300

\* the largest idle_images folder the gallery is examined with
MaxGallery == 3

\* selections followed: two rounds of the largest folder and one more
MaxPicks == 2 * MaxGallery + 1

\* what _load_idle_images finds: from nothing to MaxGallery image files, in
\* the order os.listdir discovered them
GalleryFolders ==
    {[i \in 1..k |-> "idle" \o ToString(i)] : k \in 0..MaxGallery}

InitGallery ==
    /\ Idle("gallery")
    /\ idle_index = 0
    /\ idle_images \in GalleryFolders
    /\ idle_shuffle \in BOOLEAN
    /\ picked = << >>
    /\ call = NoCall

\* one call of _get_idle_image
SelectIdle ==
    /\ pc = "gallery"
    /\ Len(picked) < MaxPicks
    /\ \E sel \in GetIdleImage(idle_images, idle_shuffle, idle_index) :
        /\ picked' = Append(picked, sel.img)
        /\ idle_index' = sel.idx
    /\ UNCHANGED <<loop, idle_images, idle_shuffle, call>>

NextGallery == SelectIdle

SpecGallery == InitGallery /\ [][NextGallery]_vars

-----------------------------------------------------------------------------
(* _break_fix on its own.  A Python str is the sequence of its characters,   *)
(* a token list is a list of such sequences.  The generator is followed    *)
(* one frame at a time: a frame either returns (`if not text`) or yields   *)
(* one line and delegates to a new frame with `yield from`.                *)

PyStr(s) == [type |-> "str", items |-> s]

\* the characters texts are made of: a narrow glyph, a wide glyph, the blank
Chars == {"i", "m", " "}

\* the longest text examined
MaxTextLen == 5

\* the widest line budget examined
MaxWidth == 3

\* frames the interpreter allows before it raises RecursionError: more than
\* any text examined has tokens, as sys.getrecursionlimit() is in practice
MaxDepth == MaxTextLen + 1

Texts == UNION {[1..n -> Chars] : n \in 0..MaxTextLen}

\* the advance of one glyph under the font
CharWidth(c) == IF c = "m" THEN 2 ELSE 1

RECURSIVE TextLength(_)
\* int(draw.textlength(text=t, font=font)): the advances added up
TextLength(s) ==
    IF s = << >> THEN 0 ELSE CharWidth(Head(s)) + TextLength(Tail(s))

RECURSIVE Split(_, _)
\* str.split(): the maximal runs of non-blank characters (word is the run
\* being read)
Split(s, word) ==
    IF s = << >>
    THEN IF word = << >> THEN << >> ELSE <<word>>
    ELSE IF Head(s) = " "
         THEN (IF word = << >> THEN << >> ELSE <<word>>) \o Split(Tail(s), << >>)
         ELSE Split(Tail(s), Append(word, Head(s)))

RECURSIVE Join(_)
\* ' '.join(tokens)
Join(tokens) ==
    IF tokens = << >> THEN << >>
    ELSE IF Len(tokens) = 1 THEN tokens[1]
         ELSE tokens[1] \o <<" ">> \o Join(Tail(tokens))

\* text[:n]
Take(tokens, n) == SubSeq(tokens, 1, n)

\* text[n:]
Drop(tokens, n) == SubSeq(tokens, n + 1, Len(tokens))

RECURSIVE Search(_, _, _, _)
\* the binary search of _break_fix: the value of lo when `while lo < hi`
\* ends
Search(tokens, width, lo, hi) ==
    IF lo < hi
    THEN LET mid == (lo + hi + 1) \div 2
             w == TextLength(Join(Take(tokens, mid)))
         IN  IF w <= width
             THEN Search(tokens, width, mid, hi)
             ELSE Search(tokens, width, lo, mid - 1)
    ELSE lo

\* `if isinstance(text, str): text = text.split()`
TokensOf(text) ==
    IF text.type = "str" THEN Split(text.items, << >>) ELSE text.items

\* the call list(self._break_fix(text, width, font, draw)) as it starts
BreakFixCall(s, width) ==
    [fn |-> "_break_fix", arg |-> s, width |-> width, text |-> PyStr(s),
     lines |-> << >>, depth |-> 1, status |-> "running"]

InitText ==
    /\ Idle("text")
    /\ idle_index = 0
    /\ idle_images = << >>
    /\ idle_shuffle = FALSE
    /\ picked = << >>
    /\ call \in {BreakFixCall(s, w) : s \in Texts, w \in 1..MaxWidth}

\* `if not text: return` in the innermost frame: the generators are
\* exhausted and list() returns the lines
BreakFixReturn ==
    /\ pc = "text"
    /\ call.status = "running"
    /\ Len(call.text.items) = 0
    /\ call' = [call EXCEPT !.status = "done"]
    /\ UNCHANGED <<loop, idle_index, idle_images, idle_shuffle, picked>>

\* the innermost frame searches, yields its line and delegates to a new
\* frame on text[lo:]
BreakFixYield ==
    /\ pc = "text"
    /\ call.status = "running"
    /\ Len(call.text.items) > 0
    /\ call.depth < MaxDepth
    /\ LET tokens == TokensOf(call.text)
           lo == Search(tokens, call.width, 0, Len(tokens))
       IN  call' = [call EXCEPT !.lines = Append(@, Join(Take(tokens, lo))),
                                !.text = PyList(Drop(tokens, lo)),
                                !.depth = @ + 1]
    /\ UNCHANGED <<loop, idle_index, idle_images, idle_shuffle, picked>>

\* one frame too many: RecursionError leaves list(), nothing is returned
BreakFixOverflow ==
    /\ pc = "text"
    /\ call.status = "running"
    /\ Len(call.text.items) > 0
    /\ call.depth >= MaxDepth
    /\ call' = [call EXCEPT !.status = "RecursionError"]
    /\ UNCHANGED <<loop, idle_index, idle_images, idle_shuffle, picked>>

NextText ==
    \/ BreakFixReturn
    \/ BreakFixYield
    \/ BreakFixOverflow

SpecText == InitText /\ [][NextText]_vars

-----------------------------------------------------------------------------
(* The geometry of _fit_text_top_down, _fit_text_bottom_up and _gen_pic.   *)
(* An image is the pair <<width, height>> of its size; a text block is the *)
(* list of the y coordinates draw.text is called with, one per line, n     *)
(* being len(pieces).                                                      *)

\* the most lines a text block is examined with
MaxLines == 3

RECURSIVE DrawLines(_, _, _)
\* `for t, _ in pieces: draw.text((x, y), ...); y += font_size`
DrawLines(n, y, font_size) ==
    IF n = 0 THEN << >>
    ELSE <<y>> \o DrawLines(n - 1, y + font_size, font_size)

RECURSIVE HeightTaken(_, _)
\* `h_taken_by_text += font_size` once per piece, from 0
HeightTaken(n, font_size) ==
    IF n = 0 THEN 0 ELSE font_size + HeightTaken(n - 1, font_size)

\* _fit_text_top_down: the lines drawn and the height returned
FitTextTopDown(n, y_offset, font_size) ==
    [ys |-> DrawLines(n, y_offset, font_size),
     h |-> HeightTaken(n, font_size)]

\* the block drawn downwards from the anchor, as _fit_text_top_down does
Mut_FitTextBottomUp(n, y_offset, font_size) ==
    [ys |-> DrawLines(n, y_offset, font_size),
     h |-> HeightTaken(n, font_size)]

\* _fit_text_bottom_up: `if len(pieces) > 1: y_offset -= (len(pieces) - 1)
\* * font_size`, then the same loop
FitTextBottomUp(n, y_offset, font_size) ==
    [ys |-> DrawLines(n, IF n > 1 THEN y_offset - (n - 1) * font_size
                                  ELSE y_offset, font_size),
     h |-> HeightTaken(n, font_size)]

\* ImageOps.fit(image, size, ...): Pillow returns an image of the requested
\* size
ImageOpsFit(size, target_size) == target_size

\* Image.new('RGB', size)
ImageNew(size) == size

Min(a, b) == IF a < b THEN a ELSE b

\* a crop that stops at the edges of the source
Mut_Crop(size, box) ==
    <<Min(box[3], size[1]) - box[1], Min(box[4], size[2]) - box[2]>>

\* Image.crop(box): Pillow returns the box, whatever the source covers of it
Crop(size, box) == <<box[3] - box[1], box[4] - box[2]>>

\* _gen_pic, "Fit or repeat background": the size of image_new
Background(bg_mode, size, target_size) ==
    IF bg_mode = "fit"
    THEN IF size[1] # target_size[1] \/ size[2] # target_size[2]
         THEN ImageOpsFit(size, target_size)
         ELSE Crop(size, <<0, 0, target_size[1], target_size[2]>>)
    ELSE IF bg_mode = "repeat"
         THEN ImageNew(target_size)
         ELSE Crop(size, <<0, 0, target_size[1], target_size[2]>>)

\* title_position_y = album_cover_small_px + offset_px_top + 10
TitleTopDown(c) == c.album_cover_small_px + c.offset_px_top + 10

\* artist_position_y = album_cover_small_px + offset_px_top + 10
\*                     + title_height
ArtistTopDown(c, title_height) ==
    c.album_cover_small_px + c.offset_px_top + 10 + title_height

\* artist_position_y = image_new.height - (offset_px_bottom
\*                     + font_size_artist)
ArtistBottomUp(c, height) ==
    height - (c.offset_px_bottom + c.font_size_artist)

\* the height of the artist block left out
Mut_TitleBottomUp(c, height, artist_height) ==
    height - (c.offset_px_bottom + c.font_size_title)

\* title_position_y = image_new.height - (offset_px_bottom
\*                    + font_size_title) - artist_height
TitleBottomUp(c, height, artist_height) ==
    height - (c.offset_px_bottom + c.font_size_title) - artist_height

\* _gen_pic, "Render text": the lines of the two blocks.  c is the
\* configuration, nt and na the line counts of title and artist.
RenderText(c, height, nt, na) ==
    IF c.text_direction = "top-down"
    THEN LET title == FitTextTopDown(nt, TitleTopDown(c), c.font_size_title)
             artist == FitTextTopDown(na, ArtistTopDown(c, title.h),
                                      c.font_size_artist)
         IN  [title |-> title.ys, artist |-> artist.ys]
    ELSE IF c.text_direction = "bottom-up"
         THEN LET artist == FitTextBottomUp(na, ArtistBottomUp(c, height),
                                            c.font_size_artist)
                  title == FitTextBottomUp(nt,
                               TitleBottomUp(c, height, artist.h),
                               c.font_size_title)
              IN  [title |-> title.ys, artist |-> artist.ys]
         ELSE [title |-> << >>, artist |-> << >>]

\* _gen_pic: the size of the composite and where its text was drawn (blur
\* and paste leave the size of image_new alone)
GenPicLayout(c, size, nt, na) ==
    LET image_new == Background(c.background_mode, size, <<c.width, c.height>>)
    IN  [size |-> image_new, text |-> RenderText(c, image_new[2], nt, na)]

\* configurations examined: a 4 x 6 canvas, every background_mode and
\* text_direction branch, two values for each offset and font size
Configs ==
    [width : {4}, height : {6},
     background_mode : {"fit", "repeat", "tile"},
     text_direction : {"top-down", "bottom-up", "sideways"},
     album_cover_small_px : {2},
     offset_px_top : {0, 1},
     offset_px_bottom : {0, 1},
     font_size_title : {2, 3},
     font_size_artist : {1, 2}]

\* source image sizes: smaller than the canvas, the canvas itself, wider,
\* taller
ImageSizes == {<<2, 2>>, <<4, 6>>, <<9, 3>>, <<3, 9>>}

\* anchors and line heights _fit_text_bottom_up is called with
Anchors == {0, 5, 40}

FontSizes == {1, 2, 7}

InitLayout ==
    /\ Idle("layout")
    /\ idle_index = 0
    /\ idle_images = << >>
    /\ idle_shuffle = FALSE
    /\ picked = << >>
    /\ call \in
         {[fn |-> "_gen_pic", status |-> "called", config |-> c, size |-> s,
           nt |-> nt, na |-> na] :
              c \in Configs, s \in ImageSizes,
              nt \in 0..MaxLines, na \in 0..MaxLines}
         \cup
         {[fn |-> "_fit_text_bottom_up", status |-> "called", n |-> n,
           y_offset |-> y, font_size |-> f] :
              n \in 0..MaxLines, y \in Anchors, f \in FontSizes}

\* _gen_pic runs to its return
GenPicReturn ==
    /\ pc = "layout"
    /\ call.fn = "_gen_pic"
    /\ call.status = "called"
    /\ call' = [fn |-> "_gen_pic", status |-> "returned",
                config |-> call.config, size |-> call.size,
                nt |-> call.nt, na |-> call.na,
                result |-> GenPicLayout(call.config, call.size,
                                        call.nt, call.na)]
    /\ UNCHANGED <<loop, idle_index, idle_images, idle_shuffle, picked>>

\* _fit_text_bottom_up runs to its return
FitTextReturn ==
    /\ pc = "layout"
    /\ call.fn = "_fit_text_bottom_up"
    /\ call.status = "called"
    /\ call' = [fn |-> "_fit_text_bottom_up", status |-> "returned",
                n |-> call.n, y_offset |-> call.y_offset,
                font_size |-> call.font_size,
                result |-> FitTextBottomUp(call.n, call.y_offset,
                                           call.font_size)]
    /\ UNCHANGED <<loop, idle_index, idle_images, idle_shuffle, picked>>

NextLayout ==
    \/ GenPicReturn
    \/ FitTextReturn

SpecLayout == InitLayout /\ [][NextLayout]_vars

-----------------------------------------------------------------------------
(* Properties *)

\* a step in which the top-of-loop poll returns and the loop body branches
TickStep == pc = "poll" /\ pc' \in {"build", "delay"} /\ tick' # "raised"

\* a step in which the poll of an idle increment returns
IdlePollStep == pc = "idle_poll" /\ pc' \in {"continue", "idle_wait"}

\* a step in which the process is terminated
Stopping == pc' = "stopped"

TitleOf(req) == req.items[1]

CoverOf(req) == req.items[2]

ArtistOf(req) == req.items[3]

WaitPcs == {"idle_wait", "idle_poll", "continue"}

\* C1: debounce.  When the top-of-loop poll returns a Track whose title and
\* cover URL are those of the Track the previous tick returned, the tick
\* requests no frame build: control goes to the trailing delay and the
\* stored key stays.
C1_Debounce ==
    [][(/\ TickStep
        /\ tick = "track"
        /\ tick' = "track"
        /\ TitleOf(song_request') = TitleOf(song_request)
        /\ CoverOf(song_request') = CoverOf(song_request))
       => pc' = "delay" /\ song_prev' = song_prev]_vars

\* Track A was polled twice in a row and the second tick went straight to
\* the trailing delay.
C1_Witness ==
    /\ pc = "delay"
    /\ tick = "track"
    /\ prev_tick.outcome = "track"
    /\ prev_tick.request = TrackA
    /\ song_request = TrackA

\* C2: the key is the plain concatenation title + coverUrl.  A tick whose
\* Track has the same concatenation as the Track of the previous tick (it
\* differs in the artist only, or title and cover differ and concatenate to
\* the same string) requests no frame build.
C2_ConcatKey ==
    [][(/\ TickStep
        /\ tick = "track"
        /\ tick' = "track"
        /\ TitleOf(song_request') \o CoverOf(song_request')
             = TitleOf(song_request) \o CoverOf(song_request))
       => /\ pc' = "delay"
          /\ song_prev' = song_prev
          /\ song_prev = TitleOf(song_request') \o CoverOf(song_request')]_vars

\* Track B, whose title and cover both differ from Track A's and
\* concatenate to the same key, was polled right after Track A and debounced.
C2_Witness ==
    /\ pc = "delay"
    /\ tick = "track"
    /\ prev_tick.outcome = "track"
    /\ prev_tick.request = TrackA
    /\ song_request = TrackB
    /\ TitleOf(TrackA) # TitleOf(TrackB)
    /\ CoverOf(TrackA) # CoverOf(TrackB)

\* C3: a tick whose poll returns empty stores "NO_SONG" and requests the
\* frame build (also right after another idle tick); that build is entered
\* from the poll only, so once per tick; unless it raises it composes the
\* gallery's image with empty title and artist and without the small cover;
\* and the idle wait is only ever running after that frame was pushed.
C3_IdleTick ==
    /\ [](pc \in WaitPcs =>
            /\ song_prev = "NO_SONG"
            /\ ~Truthy(song_request)
            /\ Len(ops) > 0
            /\ ops[Len(ops)] = "push")
    /\ [][/\ (TickStep /\ tick' = "empty") =>
                (pc' = "build" /\ song_prev' = "NO_SONG")
          /\ pc' = "build" => pc = "poll"
          /\ (pc = "build" /\ ~Truthy(song_request) /\ pc' = "refresh") =>
                /\ image'.title = ""
                /\ image'.artist = ""
                /\ image'.small = FALSE
                /\ image'.src \in
                     {s.img : s \in GetIdleImage(idle_images, idle_shuffle,
                                                 idle_index)}
          /\ (pc' = "idle_wait" /\ pc # "idle_poll") =>
                (pc = "push" /\ elapsed' = 0)]_vars

\* An idle tick that followed an idle tick has pushed its idle frame and
\* stands at the start of its wait.
C3_Witness ==
    /\ pc = "idle_wait"
    /\ elapsed = 0
    /\ tick = "empty"
    /\ prev_tick.outcome = "empty"
    /\ song_prev = "NO_SONG"
    /\ ops = <<"push">>

\* C4: after a tick that polled empty (no track, an ad, the retry ceiling)
\* the stored key is "NO_SONG", and the next tick that returns a Track
\* stores that Track's key and requests its frame build, whatever Track was
\* shown before.
C4_SentinelKey ==
    /\ [](tick = "empty" => song_prev = "NO_SONG")
    /\ [][(TickStep /\ tick = "empty" /\ tick' = "track") =>
            /\ pc' = "build"
            /\ song_prev' = TitleOf(song_request') \o CoverOf(song_request')
         ]_vars

\* The Track whose title spells the sentinel gets its frame right after an
\* idle tick.
C4_Witness ==
    /\ pc = "push"
    /\ tick = "track"
    /\ prev_tick.outcome = "empty"
    /\ song_request = TrackC
    /\ image = SongFrame(CoverOf(TrackC), TrackC)

\* C5: idle early exit.  When the poll of an increment returns a Track the
\* wait is over (the next statement is `continue`, with no further sleep);
\* the time spent is 5 per increment, so a Track at the third increment of
\* a 300-unit wait ends it at 15.
C5_EarlyExit ==
    /\ [](elapsed = 5 * sleeps)
    /\ []((pc = "continue" /\ sleeps = 3 /\ Truthy(polled)) => elapsed = 15)
    /\ [][/\ (IdlePollStep /\ Truthy(polled')) =>
                (pc' = "continue" /\ elapsed' = elapsed /\ sleeps' = sleeps)
          /\ pc = "continue" =>
                (Stopping \/ (pc' = "poll" /\ sleeps' = 0))]_vars

\* A 300-unit wait was broken by the Track of its third increment.
C5_Witness ==
    /\ pc = "continue"
    /\ idle_display_time = 300
    /\ Truthy(polled)
    /\ sleeps = 3
    /\ elapsed = 15

\* C6 (as claimed): the time slept in one idle wait never exceeds the
\* configured idle_display_time.
C6_Claim == sleeps * sleep_increment <= idle_display_time

\* C7: an idle iteration whose wait completed or broke is back at the poll
\* without the trailing delay; an iteration whose poll returned a Track is
\* back at the poll after exactly one trailing delay.  (An idle iteration
\* reaches the delay only through an exception.)
C7_DelayOrder ==
    /\ []((pc = "poll" /\ depth = 0 /\ tick = "track") => delays = 1)
    /\ [](delays <= 1)
    /\ [][/\ pc = "continue" =>
                (Stopping \/ (pc' = "poll" /\ delays' = 0))
          /\ (pc' = "delay" /\ tick' = "empty") =>
                pc \in {"build", "idle_poll"}
          /\ pc = "delay" => (Stopping \/ pc' = "poll")]_vars

\* An idle iteration is back at the top-of-loop poll and no trailing delay
\* was slept since its own poll.
C7_Witness ==
    /\ pc = "poll"
    /\ depth = 0
    /\ tick = "empty"
    /\ delays = 0
    /\ ops = <<"push">>

\* a step in which the track source is asked
QueryStep ==
    /\ Polling
    /\ \/ depth' = depth + 1
       \/ count' = count + 1
       \/ TickStep /\ song_request' # PyNone
       \/ IdlePollStep /\ polled' # PyNone

\* C8: bounded retry.  An "unknown" answer makes the poll ask again at
\* once; one poll asks the source fewer than 10 times; once the ceiling is
\* reached the poll returns None without raising, which the main loop
\* treats as idle (and the idle wait as "no track").
C8_BoundedRetry ==
    [][/\ QueryStep => depth + 1 < 10
       /\ (Polling /\ count + 1 >= 10) =>
            \/ Stopping
            \/ /\ count' = count - depth
               /\ depth' = 0
               /\ pc = "poll" =>
                    /\ song_request' = PyNone
                    /\ tick' = "empty"
                    /\ pc' = "build"
                    /\ song_prev' = "NO_SONG"
               /\ pc = "idle_poll" =>
                    (polled' = PyNone /\ pc' = "idle_wait")]_vars

\* A poll that started with the counter at 0 ran into the ceiling after
\* nine queries and the loop is building the idle frame.
C8_Witness ==
    /\ pc = "build"
    /\ song_request = PyNone
    /\ count = 0
    /\ tick = "empty"

\* C9 (as claimed): with threshold 20 the 21st push since the counter was 0
\* is preceded by a clear, so a push that no clear preceded is at most the
\* 20th.
C9_Claim == (pc = "push" /\ ops = << >>) => pic_counter + 1 <= 20

\* C10: clear ordering.  When the counter exceeds the threshold the clear
\* and the reset to 0 come before the push, and the push of the new frame
\* follows in the same call: a clear is only ever pending while the push is
\* the next statement.
C10_ClearOrder ==
    /\ []("clean" \in {ops[i] : i \in 1..Len(ops)} =>
            /\ ops \in {<<"clean">>, <<"clean", "push">>}
            /\ ops = <<"clean">> => (pc = "push" /\ pic_counter = 0)
            /\ ops = <<"clean", "push">> => pic_counter >= 1)
    /\ [][/\ (pc = "refresh" /\ pic_counter > 20) =>
               \/ Stopping
               \/ (pc' = "push" /\ ops' = <<"clean">> /\ pic_counter' = 0)
          /\ pc = "push" =>
               \/ Stopping
               \/ /\ ops' = Append(ops, "push")
                  /\ pic_counter' = pic_counter + 1
                  /\ pc' \in {"delay", "idle_wait"}]_vars

\* A call cleared the display and then pushed its frame.
C10_Witness ==
    /\ ops = <<"clean", "push">>
    /\ pic_counter = 1
    /\ pc \in {"delay", "idle_wait"}

\* a step in which _display_image is called and self.pic_counter += 1 follows
PushStep == pc = "push" /\ pc' \in {"delay", "idle_wait"}

\* C11 (as claimed): pic_counter counts the frames successfully pushed.  The
\* counter advances by one in exactly the steps in which a frame reaches the
\* display: a push whose driver call raised leaves it where it was.
C11_Claim ==
    [][(pic_counter' = pic_counter + 1) <=>
           (PushStep /\ "push" \notin failed')]_vars

\* C12: round robin.  With shuffle off and K >= 1 images, the selections
\* made from cursor 0 are the images in discovery order, each once per K
\* selections, the next K repeating the order; the cursor is the number of
\* selections modulo K, so it is back at 0 after the last image.
C12_RoundRobin ==
    (~idle_shuffle /\ Len(idle_images) >= 1) =>
        /\ \A i \in 1..Len(picked) :
              picked[i] = idle_images[((i - 1) % Len(idle_images)) + 1]
        /\ idle_index = Len(picked) % Len(idle_images)

\* Two full rounds over three images have been selected and the cursor has
\* wrapped to 0.
C12_Witness ==
    /\ ~idle_shuffle
    /\ Len(idle_images) = 3
    /\ picked = idle_images \o idle_images
    /\ idle_index = 0

\* C13: with no image discovered every selection is the default idle image,
\* with shuffle on and off, and the cursor is left alone.
C13_EmptyGallery ==
    idle_images = << >> =>
        /\ \A i \in 1..Len(picked) : picked[i] = default_idle_image
        /\ idle_index = 0

\* The empty gallery was asked twice in shuffle mode.
C13_Witness ==
    /\ idle_images = << >>
    /\ idle_shuffle
    /\ picked = <<default_idle_image, default_idle_image>>

RECURSIVE LinesTokens(_)
\* the lines split back into tokens and concatenated
LinesTokens(lines) ==
    IF lines = << >> THEN << >>
    ELSE Split(Head(lines), << >>) \o LinesTokens(Tail(lines))

\* C14 (as claimed): round trip and width bound.  For every text and budget
\* the call ends by returning its lines; split back and concatenated they
\* are the tokens of the text, and a line wider than the budget is a single
\* token.
C14_Claim ==
    call.status # "running" =>
        /\ call.status = "done"
        /\ LinesTokens(call.lines) = Split(call.arg, << >>)
        /\ \A i \in 1..Len(call.lines) :
              \/ TextLength(call.lines[i]) <= call.width
              \/ Len(Split(call.lines[i], << >>)) = 1

\* the innermost frame is about to search a token list whose first token
\* alone is wider than the budget
OversizedFirst ==
    /\ call.status = "running"
    /\ TokensOf(call.text) # << >>
    /\ TextLength(TokensOf(call.text)[1]) > call.width

\* C15 (as claimed): termination on an oversized token.  No call ends in a
\* RecursionError, and a frame whose first token alone is wider than the
\* budget yields that token as a line and goes on with the tokens after it.
C15_Claim ==
    /\ [](call.status # "RecursionError")
    /\ [][OversizedFirst =>
            /\ call'.lines = Append(call.lines, TokensOf(call.text)[1])
            /\ call'.text = PyList(Tail(TokensOf(call.text)))]_vars

\* C16: bottom-up anchoring.  _fit_text_bottom_up called with N >= 1 lines,
\* line height H and anchor Y draws N lines, the last at exactly Y and the
\* first at Y - (N - 1) * H, and returns N * H.
C16_BottomUp ==
    (call.fn = "_fit_text_bottom_up" /\ call.status = "returned"
       /\ call.n >= 1) =>
        /\ Len(call.result.ys) = call.n
        /\ call.result.ys[call.n] = call.y_offset
        /\ call.result.ys[1] = call.y_offset - (call.n - 1) * call.font_size
        /\ call.result.h = call.n * call.font_size

\* Three lines of height 7 anchored at 40 were drawn at 26, 33 and 40.
C16_Witness ==
    /\ call.fn = "_fit_text_bottom_up"
    /\ call.status = "returned"
    /\ call.n = 3
    /\ call.y_offset = 40
    /\ call.font_size = 7
    /\ call.result.ys = <<26, 33, 40>>

\* C17: canvas-size invariant.  Whatever the size of the source image and
\* whatever background_mode is configured, the composite _gen_pic returns
\* is exactly width x height of the configuration.
C17_CanvasSize ==
    (call.fn = "_gen_pic" /\ call.status = "returned") =>
        call.result.size = <<call.config.width, call.config.height>>

\* A source smaller than the canvas was composed under an unrecognized
\* background_mode.
C17_Witness ==
    /\ call.fn = "_gen_pic"
    /\ call.status = "returned"
    /\ call.config.background_mode = "tile"
    /\ call.size = <<2, 2>>
    /\ call.result.size = <<4, 6>>

\* C20: title and artist never overlap.  A line drawn at y with font size f
\* covers y .. y + f.  Top-down the title starts at album_cover_small_px +
\* offset_px_top + 10 and the artist's first line is drawn where the title
\* block ended; bottom-up the artist's last line is drawn at height -
\* offset_px_bottom - font_size_artist and the title's last line ends at the
\* top edge of the artist block.  In both no title line meets an artist
\* line, for every line count and every pair of font sizes.
C20_NoOverlap ==
    (call.fn = "_gen_pic" /\ call.status = "returned") =>
        LET c == call.config
            t == call.result.text.title
            a == call.result.text.artist
            ft == c.font_size_title
            fa == c.font_size_artist
            height == call.result.size[2]
            anchor == c.album_cover_small_px + c.offset_px_top + 10
        IN  /\ \A i \in 1..Len(t) : \A j \in 1..Len(a) :
                  t[i] + ft <= a[j] \/ a[j] + fa <= t[i]
            /\ c.text_direction = "top-down" =>
                  /\ Len(t) = call.nt /\ Len(a) = call.na
                  /\ call.nt >= 1 => t[1] = anchor
                  /\ call.na >= 1 => a[1] = anchor + call.nt * ft
            /\ c.text_direction = "bottom-up" =>
                  /\ Len(t) = call.nt /\ Len(a) = call.na
                  /\ call.na >= 1 =>
                        a[call.na] = height - c.offset_px_bottom - fa
                  /\ call.nt >= 1 =>
                        t[call.nt] + ft =
                            height - c.offset_px_bottom - call.na * fa
                  /\ (call.nt >= 1 /\ call.na >= 1) =>
                        t[call.nt] + ft = a[1]

\* A two-line title of size 3 was laid out bottom-up over a three-line
\* artist block of size 2.
C20_Witness ==
    /\ call.fn = "_gen_pic"
    /\ call.status = "returned"
    /\ call.config.text_direction = "bottom-up"
    /\ call.config.font_size_title = 3
    /\ call.config.font_size_artist = 2
    /\ call.nt = 2
    /\ call.na = 3
    /\ Len(call.result.text.title) = 2
    /\ Len(call.result.text.artist) = 3

\* the frame in hand was composed from the default idle image for a Track:
\* the fetch of its cover failed
FallbackInHand ==
    /\ pc \in {"refresh", "push"}
    /\ Truthy(song_request)
    /\ image.src = default_idle_image

\* C18: FetchFailure recovery.  A Track build that does not end with the
\* fetched cover ends with the default idle image composed with the Track's
\* own artist and title and the small cover; that frame goes through the
\* refresh test to the push of the same call, from where control returns to
\* the trailing delay; the gallery cursor stays where it was throughout.
C18_FetchFailure ==
    [][/\ (/\ pc = "build"
           /\ Truthy(song_request)
           /\ pc' = "refresh"
           /\ image'.src # CoverOf(song_request)) =>
              /\ image' = GenPic(default_idle_image, ArtistOf(song_request),
                                 TitleOf(song_request), TRUE)
              /\ idle_index' = idle_index
       /\ FallbackInHand =>
              \/ Stopping
              \/ /\ pc = "refresh"
                 /\ pc' = "push"
                 /\ image' = image
                 /\ idle_index' = idle_index
              \/ /\ pc = "push"
                 /\ ops' = Append(ops, "push")
                 /\ pc' = "delay"
                 /\ idle_index' = idle_index]_vars

\* The cover of a Track could not be fetched while the gallery cursor stood
\* at 1; the fallback frame with the Track's text is about to be pushed.
C18_Witness ==
    /\ pc = "push"
    /\ Truthy(song_request)
    /\ image = GenPic(default_idle_image, ArtistOf(song_request),
                      TitleOf(song_request), TRUE)
    /\ idle_index = 1

\* a step in which an exception leaves the poll or the frame build
RaiseStep ==
    \/ Polling /\ count' = count + 1 /\ depth' = 0 /\ pc' # pc
    \/ pc = "build" /\ pc' # "refresh"

\* C19: no failure ends the loop.  The process is only ever stopped by the
\* sys.exit(0) of the SIGTERM and KeyboardInterrupt handlers; an exception
\* that leaves the poll (at the top of the loop or in the idle wait) or the
\* frame build takes control to the trailing delay, a display operation
\* that failed lets the call go on, and from the delay the loop polls again.
C19_LoopSurvives ==
    /\ [](pc = "stopped" => exit_status = SystemExit(0))
    /\ [][/\ RaiseStep => (pc' = "delay" \/ exit_status' = SystemExit(0))
          /\ (pc = "refresh" /\ "clean" \in failed') =>
                (pc' = "push" \/ exit_status' = SystemExit(0))
          /\ (pc = "push" /\ "push" \in failed') =>
                (pc' \in {"delay", "idle_wait"}
                   \/ exit_status' = SystemExit(0))
          /\ pc = "delay" =>
                (pc' = "poll" \/ exit_status' = SystemExit(0))]_vars

\* A top-of-loop poll raised, the loop slept its delay and is polling again.
C19_Witness ==
    /\ pc = "poll"
    /\ tick = "raised"
    /\ delays = 1
    /\ exit_status = Unbound

\* C21 (as claimed): the counter of limit_recursion is back at 0 whenever
\* no call of _get_song_info is in progress, whatever the last poll ended
\* with: a track, nothing, the ceiling, or an exception of the source.
C21_Claim == depth = 0 => count = 0

C23_Claim ==
    [][(pc' = "poll" /\ pc \notin {"poll", "start"}) =>
          \/ pc = "delay"
          \/ pc = "continue" /\ sleeps >= 1]_vars

=============================================================================
